---- MODULE Spec2Model ----
(***************************************************************************)
(* A model of the vegas-lattice crate: the Lattice value (size, sites,     *)
(* edges) and the operations that build and transform it.                  *)
(*                                                                         *)
(* Every operation of the crate consumes a Lattice and returns a Lattice   *)
(* or a typed error.  The state is the value the caller holds (lattice),   *)
(* the value the last operation consumed (prev), the operation and its     *)
(* arguments (op) and how the operation ended (result); beside it the      *)
(* Alloy the caller built last (alloy) and the kind last picked from it    *)
(* (picked).  The command-line program is a process of its own: what it    *)
(* printed on the error stream (stderr) and the status it ended with       *)
(* (exit_status).                                                          *)
(*                                                                         *)
(* Numbers.  Site indices are 0-based as in the source; TLA+ sequences are *)
(* 1-based, so site k is sites[k + 1].  Coordinates and sizes are f64 in   *)
(* the source; the model counts them in half units (the integer c stands   *)
(* for the f64 c/2) and draws them from small integers, on which the f64   *)
(* additions and multiplications of the source are exact.  i32 arithmetic  *)
(* has truncating division and remainder; the `as i32` and `as usize` casts *)
(* preserve the value of every number the bounds allow (all far below      *)
(* 2^31), so they do not appear.                                           *)
(***************************************************************************)
EXTENDS Integers, Sequences, FiniteSets, TLC

VARIABLES lattice, prev, op, result, fuel, alloy, picked, stderr, exit_status

vars ==
    <<lattice, prev, op, result, fuel, alloy, picked, stderr, exit_status>>

-----------------------------------------------------------------------------
(* Bounds of the model *)

\* deltas of the input edges range over -MaxDelta..MaxDelta along one axis
MaxDelta == 2
\* expansion amounts range over 0..MaxAmount
MaxAmount == 3
\* the input lattices have at most MaxSites sites
MaxSites == 2
\* operations chained by the pipeline specification
MaxOps == 2
\* an alloy is built from at most MaxKinds kinds and ratios
MaxKinds == 3
\* the ratios of an alloy range over 0..MaxWeight
MaxWeight == 2

-----------------------------------------------------------------------------
(* util.rs *)

Axes == {"X", "Y", "Z"}

\* the tuple component an axis selects
AxisIndex(axis) == CASE axis = "X" -> 1 [] axis = "Y" -> 2 [] axis = "Z" -> 3

\* Rust's `/` on i32: truncates towards zero (b > 0)
TruncDiv(a, b) == IF a >= 0 THEN a \div b ELSE -((-a) \div b)

\* Rust's `%` on i32: the sign of the dividend (b > 0)
TruncRem(a, b) == a - b * TruncDiv(a, b)

\* Mathematical floor division and floor modulus, for the statements
FloorDiv(a, b) == a \div b
FloorMod(a, b) == a % b

\* a plausible slip: plain truncating `%` and `/`
python_mod_trunc(num, modulus) ==
    <<TruncRem(num, modulus), TruncDiv(num, modulus)>>

python_mod(num, modulus) ==
    IF num < 0
    THEN <<modulus + TruncRem(num, modulus),
           TruncDiv(num, modulus) - 1>>
    ELSE <<TruncRem(num, modulus), TruncDiv(num, modulus)>>

-----------------------------------------------------------------------------
(* site.rs *)

\* Option<Vec<String>>: None is the empty tuple, Some(v) the tuple of v
None == <<>>

Some(v) == <<v>>

Site(kind, position, tags) == [kind |-> kind, position |-> position, tags |-> tags]

\* a plausible slip: every arm of the match moves along x
site_move_x_only(site, axis, distance) ==
    [site EXCEPT !.position[1] = @ + distance]

\* Site::move_x / move_y / move_z
site_move(site, axis, distance) ==
    [site EXCEPT !.position[AxisIndex(axis)] = @ + distance]

\* a plausible slip: builds a new site of the kind, as Site::new does
with_kind_fresh(site, kind) == Site(kind, <<0, 0, 0>>, None)

\* Site::with_kind
with_kind(site, kind) == [site EXCEPT !.kind = kind]

-----------------------------------------------------------------------------
(* edge.rs *)

Edge(source, target, delta) ==
    [source |-> source, target |-> target, delta |-> delta, tags |-> None]

delta_along(edge, axis) == edge.delta[AxisIndex(axis)]

\* a plausible slip: shifts the endpoints but forgets to wrap the target
move_along_nowrap(edge, axis, amount, nsites, limit) ==
    [edge EXCEPT !.source = @ + amount * nsites,
                 !.target = @ + amount * nsites]

\* a plausible slip: wraps by the sites of one cell, not of the grown lattice
move_along_old_modulus(edge, axis, amount, nsites, limit) ==
    LET distance   == amount * nsites
        source     == edge.source + distance
        target0    == edge.target + distance
        delta      == delta_along(edge, axis)
        target     == target0 + delta * nsites
        pm         == python_mod(target, nsites)
    IN  [edge EXCEPT !.source = source,
                     !.target = pm[1],
                     !.delta[AxisIndex(axis)] = pm[2]]

\* a plausible slip: every arm of the match assigns the x component
move_along_x_delta(edge, axis, amount, nsites, limit) ==
    LET distance   == amount * nsites
        new_nsites == limit * nsites
        source     == edge.source + distance
        target0    == edge.target + distance
        delta      == delta_along(edge, axis)
        target     == target0 + delta * nsites
        pm         == python_mod(target, new_nsites)
    IN  [edge EXCEPT !.source = source,
                     !.target = pm[1],
                     !.delta[1] = pm[2]]

\* Edge::move_along(axis, amount, nsites, limit)
move_along(edge, axis, amount, nsites, limit) ==
    LET distance   == amount * nsites
        new_nsites == limit * nsites
        source     == edge.source + distance
        target0    == edge.target + distance
        delta      == delta_along(edge, axis)
        target     == target0 + delta * nsites
        pm         == python_mod(target, new_nsites)
    IN  [edge EXCEPT !.source = source,
                     !.target = pm[1],
                     !.delta[AxisIndex(axis)] = pm[2]]

\* a plausible slip: maps only the source through the table
reindex_source_only(edge, index) ==
    [edge EXCEPT !.source = index[edge.source + 1]]

\* Edge::reindex(index): index is the table old index -> new index
reindex(edge, index) ==
    [edge EXCEPT !.source = index[edge.source + 1],
                 !.target = index[edge.target + 1]]

-----------------------------------------------------------------------------
(* lattice.rs *)

Lattice(size, sites, edges) == [size |-> size, sites |-> sites, edges |-> edges]

\* the caller holds no lattice: the operation consumed it and failed
NoLattice == [size |-> <<0, 0, 0>>, sites |-> <<>>, edges |-> <<>>, gone |-> TRUE]

IsLattice(l) == DOMAIN l = {"size", "sites", "edges"}

are_edges_consistent(l) ==
    \A q \in 1..Len(l.edges) :
        /\ l.edges[q].source < Len(l.sites)
        /\ l.edges[q].target < Len(l.sites)

\* a plausible slip: tests the first component alone
is_size_negative_x_only(l) == l.size[1] < 0

is_size_negative(l) == l.size[1] < 0 \/ l.size[2] < 0 \/ l.size[3] < 0

\* a plausible slip: the size is not checked
validate_edges_only(l) ==
    IF ~are_edges_consistent(l) THEN "InconsistentEdges" ELSE "Ok"

\* a plausible slip: checks the size before the edges
validate_size_first(l) ==
    IF is_size_negative(l) THEN "NegativeSize"
    ELSE IF ~are_edges_consistent(l) THEN "InconsistentEdges"
    ELSE "Ok"

\* Lattice::validate: the error, or "Ok"
validate(l) ==
    IF ~are_edges_consistent(l) THEN "InconsistentEdges"
    ELSE IF is_size_negative(l) THEN "NegativeSize"
    ELSE "Ok"

size_along(l, axis) == l.size[AxisIndex(axis)]

\* a plausible slip: the size is left as it was
expand_along_keep_size(l, axis, amount) ==
    LET n_sites == Len(l.sites)
        n_edges == Len(l.edges)
    IN  [size  |-> l.size,
         sites |-> [j \in 1..(amount * n_sites) |->
                      site_move(l.sites[((j - 1) % n_sites) + 1], axis,
                                ((j - 1) \div n_sites) * size_along(l, axis))],
         edges |-> [j \in 1..(amount * n_edges) |->
                      move_along(l.edges[((j - 1) % n_edges) + 1], axis,
                                 (j - 1) \div n_edges, n_sites, amount)]]

\* a plausible slip: site-major, replica-minor order
expand_along_site_major(l, axis, amount) ==
    LET size    == size_along(l, axis)
        n_sites == Len(l.sites)
        n_edges == Len(l.edges)
    IN  [size  |-> [l.size EXCEPT ![AxisIndex(axis)] = @ * amount],
         sites |-> [j \in 1..(amount * n_sites) |->
                      site_move(l.sites[((j - 1) \div amount) + 1], axis,
                                ((j - 1) % amount) * size)],
         edges |-> [j \in 1..(amount * n_edges) |->
                      move_along(l.edges[((j - 1) \div amount) + 1], axis,
                                 (j - 1) % amount, n_sites, amount)]]

\* Lattice::expand_along(axis, amount)
expand_along(l, axis, amount) ==
    LET size    == size_along(l, axis)
        n_sites == Len(l.sites)
        n_edges == Len(l.edges)
    IN  [size  |-> [l.size EXCEPT ![AxisIndex(axis)] = @ * amount],
         sites |-> [j \in 1..(amount * n_sites) |->
                      site_move(l.sites[((j - 1) % n_sites) + 1], axis,
                                ((j - 1) \div n_sites) * size)],
         edges |-> [j \in 1..(amount * n_edges) |->
                      move_along(l.edges[((j - 1) % n_edges) + 1], axis,
                                 (j - 1) \div n_edges, n_sites, amount)]]

\* a plausible slip: the axes are taken in the opposite order
expand_zyx(l, x, y, z) ==
    expand_along(expand_along(expand_along(l, "Z", z), "Y", y), "X", x)

\* Lattice::expand(x, y, z)
expand(l, x, y, z) ==
    expand_along(expand_along(expand_along(l, "X", x), "Y", y), "Z", z)

\* Lattice::expand_all(amount)
expand_all(l, amount) ==
    expand_along(expand_along(expand_along(l, "X", amount), "Y", amount),
                 "Z", amount)

\* the elements seq[i], i >= from, whose flag keepf[i] is set, in order
RECURSIVE FilterBy(_, _, _)
FilterBy(seq, keepf, from) ==
    IF from > Len(seq) THEN <<>>
    ELSE (IF keepf[from] THEN <<seq[from]>> ELSE <<>>)
             \o FilterBy(seq, keepf, from + 1)

\* a plausible slip: removal while iterating, which passes over the edge
\* that follows a removed one
RECURSIVE FilterSkipping(_, _, _)
FilterSkipping(seq, keepf, from) ==
    IF from > Len(seq) THEN <<>>
    ELSE IF keepf[from] THEN <<seq[from]>> \o FilterSkipping(seq, keepf, from + 1)
    ELSE (IF from + 1 <= Len(seq) THEN <<seq[from + 1]>> ELSE <<>>)
             \o FilterSkipping(seq, keepf, from + 2)

drop_along_skipping(l, axis) ==
    [l EXCEPT !.edges =
        FilterSkipping(l.edges,
                 [q \in 1..Len(l.edges) |-> delta_along(l.edges[q], axis) = 0],
                 1)]

\* a plausible slip: every arm of the match tests the x component
drop_along_x_only(l, axis) ==
    [l EXCEPT !.edges =
        FilterBy(l.edges,
                 [q \in 1..Len(l.edges) |-> delta_along(l.edges[q], "X") = 0],
                 1)]

\* Lattice::drop_along(axis): retain the edges with no delta along the axis
drop_along(l, axis) ==
    [l EXCEPT !.edges =
        FilterBy(l.edges,
                 [q \in 1..Len(l.edges) |-> delta_along(l.edges[q], axis) = 0],
                 1)]

\* Lattice::drop_all
drop_all(l) == drop_along(drop_along(drop_along(l, "X"), "Y"), "Z")

-----------------------------------------------------------------------------
(* mask.rs *)

\* Rust's `as u32` on an f64: saturates, so a negative number becomes 0
SatU32(v) == IF v < 0 THEN 0 ELSE v

\* floor(c * ppu) for the coordinate c, counted in half units
FloorTimes(c, ppu) == (c * ppu) \div 2

\* the pixel Mask::keep reads for the planar coordinates (x, y)
pixel_of(mask, x, y) ==
    LET i  == SatU32(FloorTimes(x, mask.ppu)) % mask.width
        j0 == SatU32(FloorTimes(y, mask.ppu)) % mask.height
        j  == mask.height - j0 - 1
    IN  <<i, j>>

\* a plausible slip: the comparison admits equality
keep_inclusive(mask, x, y, shoot) ==
    LET alpha == mask.image[pixel_of(mask, x, y)]
    IN  shoot * 255 <= alpha * 256

\* Mask::keep(x, y, rng): shoot is the draw, counted in 256ths, and is kept
\* iff shoot/256 < alpha/255
keep(mask, x, y, shoot) ==
    LET alpha == mask.image[pixel_of(mask, x, y)]
    IN  shoot * 255 < alpha * 256

\* Axis::project_in_plane: the two coordinates off the axis
project_in_plane(axis, position) ==
    CASE axis = "X" -> <<position[2], position[3]>>
      [] axis = "Y" -> <<position[1], position[3]>>
      [] axis = "Z" -> <<position[1], position[2]>>

-----------------------------------------------------------------------------
(* alloy.rs *)

RECURSIVE SumTo(_, _)
SumTo(weights, n) == IF n = 0 THEN 0 ELSE weights[n] + SumTo(weights, n - 1)

\* struct Alloy; the weights stand for the WeightedIndex built from them
Alloy(kinds, weights) == [kinds |-> kinds, weights |-> weights]

\* no alloy: the construction failed, or none was built yet
NoAlloy == Alloy(<<>>, <<>>)

IsAlloy(a) == Len(a.weights) > 0

\* no kind picked yet
NoKind == ""

\* WeightedIndex::new(&ratios): no weights, or no weight above 0, is an
\* error of the rand crate
weighted_index_new(ratios) ==
    IF Len(ratios) = 0 THEN "InvalidInput"
    ELSE IF SumTo(ratios, Len(ratios)) = 0 THEN "InsufficientNonZero"
    ELSE "Ok"

\* the conversion `?` applies to an error of WeightedIndex::new
from_weight_error(err) == "InvalidRatios"

\* a plausible slip: the lengths are not compared
alloy_try_new_unchecked(kinds, ratios) ==
    IF weighted_index_new(ratios) # "Ok"
    THEN from_weight_error(weighted_index_new(ratios))
    ELSE "Ok"

\* Alloy::try_new(kinds, ratios): the error, or "Ok"
alloy_try_new_result(kinds, ratios) ==
    IF Len(kinds) # Len(ratios) THEN "InvalidRatios"
    ELSE IF weighted_index_new(ratios) # "Ok"
         THEN from_weight_error(weighted_index_new(ratios))
         ELSE "Ok"

\* the unzip of Alloy::try_from_targets
kinds_of(targets) == [i \in 1..Len(targets) |-> targets[i][1]]
ratios_of(targets) == [i \in 1..Len(targets) |-> targets[i][2]]

\* Alloy::try_from_targets(targets): the error, or "Ok"
alloy_try_from_targets_result(targets) ==
    alloy_try_new_result(kinds_of(targets), ratios_of(targets))

\* a plausible slip: the first index whose cumulative weight reaches x
weighted_index_inclusive(weights, x) ==
    CHOOSE i \in 1..Len(weights) :
        /\ SumTo(weights, i) >= x
        /\ \A k \in 1..(i - 1) : SumTo(weights, k) < x

\* WeightedIndex::sample with the draw x in 0..total-1: the first index
\* whose cumulative weight exceeds x
weighted_index(weights, x) ==
    CHOOSE i \in 1..Len(weights) :
        /\ SumTo(weights, i) > x
        /\ \A k \in 1..(i - 1) : SumTo(weights, k) <= x

\* Alloy::pick
\* Alloy::pick with the draw x of the generator
pick(self, x) == self.kinds[weighted_index(self.weights, x)]

-----------------------------------------------------------------------------
(* lattice.rs: masks and alloys *)

\* a plausible slip: a site under an opaque or a clear pixel takes no draw,
\* so the sites after it take the draws of the sites before them
RECURSIVE site_mask_lazy_from(_, _, _, _, _, _)
site_mask_lazy_from(l, mask, axis, draws, i, k) ==
    IF i > Len(l.sites) THEN <<>>
    ELSE LET xy    == project_in_plane(axis, l.sites[i].position)
             alpha == mask.image[pixel_of(mask, xy[1], xy[2])]
         IN  IF alpha = 255 \/ alpha = 0
             THEN <<alpha = 255>>
                      \o site_mask_lazy_from(l, mask, axis, draws, i + 1, k)
             ELSE <<keep(mask, xy[1], xy[2], draws[k])>>
                      \o site_mask_lazy_from(l, mask, axis, draws, i + 1, k + 1)

site_mask_of_lazy(l, mask, axis, draws) ==
    site_mask_lazy_from(l, mask, axis, draws, 1, 1)

\* the per-site keep table of apply_mask: site i takes the i-th draw
site_mask_of(l, mask, axis, draws) ==
    [i \in 1..Len(l.sites) |->
        LET xy == project_in_plane(axis, l.sites[i].position)
        IN  keep(mask, xy[1], xy[2], draws[i])]

\* the table old index -> new index of apply_mask, built with its counter
RECURSIVE new_indices_from(_, _, _)
new_indices_from(site_mask, i, counter) ==
    IF i > Len(site_mask) THEN <<>>
    ELSE IF site_mask[i]
         THEN <<counter>> \o new_indices_from(site_mask, i + 1, counter + 1)
         ELSE <<i - 1>> \o new_indices_from(site_mask, i + 1, counter)

\* a plausible slip: the table keeps the old index of a kept site
new_indices_identity(site_mask) == [i \in 1..Len(site_mask) |-> i - 1]

new_indices_of(site_mask) == new_indices_from(site_mask, 1, 0)

\* apply_mask indexes the keep table with an endpoint that is no site: the
\* source of an edge, or its target when the source is kept (the `&&` of
\* the edge filter does not look the target up otherwise)
mask_panics(l, site_mask) ==
    \E q \in 1..Len(l.edges) :
        \/ l.edges[q].source >= Len(l.sites)
        \/ /\ site_mask[l.edges[q].source + 1]
           /\ l.edges[q].target >= Len(l.sites)

\* a plausible slip: keeps an edge when its source alone is kept
filter_sites_and_edges_source_only(l, site_mask) ==
    LET new_indices == new_indices_of(site_mask)
        edge_kept   == [q \in 1..Len(l.edges) |->
                          site_mask[l.edges[q].source + 1]]
        kept_edges  == FilterBy(l.edges, edge_kept, 1)
    IN  [l EXCEPT !.sites = FilterBy(l.sites, site_mask, 1),
                  !.edges = [q \in 1..Len(kept_edges) |->
                               reindex(kept_edges[q], new_indices)]]

\* Lattice::apply_mask once the keep table is sampled
filter_sites_and_edges(l, site_mask) ==
    LET new_indices == new_indices_of(site_mask)
        edge_kept   == [q \in 1..Len(l.edges) |->
                          /\ site_mask[l.edges[q].source + 1]
                          /\ site_mask[l.edges[q].target + 1]]
        kept_edges  == FilterBy(l.edges, edge_kept, 1)
    IN  [l EXCEPT !.sites = FilterBy(l.sites, site_mask, 1),
                  !.edges = [q \in 1..Len(kept_edges) |->
                               reindex(kept_edges[q], new_indices)]]

\* Lattice::apply_mask(mask, axis, rng)
apply_mask(l, mask, axis, draws) ==
    filter_sites_and_edges(l, site_mask_of(l, mask, axis, draws))

\* Lattice::alloy_sites(source, target, rng): the sites of kind source take
\* the draws in order
RECURSIVE alloy_from(_, _, _, _, _)
alloy_from(sites, source, target, draws, i) ==
    IF i > Len(sites) THEN <<>>
    ELSE IF sites[i].kind # source
         THEN <<sites[i]>> \o alloy_from(sites, source, target, draws, i + 1)
         ELSE <<with_kind(sites[i], pick(target, draws[1]))>>
                  \o alloy_from(sites, source, target, Tail(draws), i + 1)

alloy_sites(l, source, target, draws) ==
    [l EXCEPT !.sites = alloy_from(l.sites, source, target, draws, 1)]

\* the number of sites of kind source: the draws alloy_sites takes
count_kind(l, source) ==
    Cardinality({i \in 1..Len(l.sites) : l.sites[i].kind = source})

-----------------------------------------------------------------------------
(* lattice.rs: construction *)

\* 0.5 * a, for the lattice parameter a counted in half units
HalfOf(a) == a \div 2

sc(a) ==
    Lattice(<<a, a, a>>,
            <<Site("A", <<0, 0, 0>>, None)>>,
            <<Edge(0, 0, <<1, 0, 0>>), Edge(0, 0, <<0, 1, 0>>),
              Edge(0, 0, <<0, 0, 1>>)>>)

\* a plausible slip: a delta of the list is written twice
bcc_repeated(a) ==
    Lattice(<<a, a, a>>,
            <<Site("A", <<0, 0, 0>>, None),
              Site("B", <<HalfOf(a), HalfOf(a), HalfOf(a)>>, None)>>,
            <<Edge(0, 1, <<0, 0, 0>>), Edge(0, 1, <<0, -1, 0>>),
              Edge(0, 1, <<-1, 0, 0>>), Edge(0, 1, <<-1, -1, 0>>),
              Edge(0, 1, <<0, 0, -1>>), Edge(0, 1, <<0, -1, -1>>),
              Edge(0, 1, <<-1, 0, -1>>), Edge(0, 1, <<-1, 0, -1>>)>>)

bcc(a) ==
    Lattice(<<a, a, a>>,
            <<Site("A", <<0, 0, 0>>, None),
              Site("B", <<HalfOf(a), HalfOf(a), HalfOf(a)>>, None)>>,
            <<Edge(0, 1, <<0, 0, 0>>), Edge(0, 1, <<0, -1, 0>>),
              Edge(0, 1, <<-1, 0, 0>>), Edge(0, 1, <<-1, -1, 0>>),
              Edge(0, 1, <<0, 0, -1>>), Edge(0, 1, <<0, -1, -1>>),
              Edge(0, 1, <<-1, 0, -1>>), Edge(0, 1, <<-1, -1, -1>>)>>)

fcc(a) ==
    Lattice(<<a, a, a>>,
            <<Site("A", <<0, 0, 0>>, None),
              Site("B", <<HalfOf(a), HalfOf(a), 0>>, None),
              Site("C", <<HalfOf(a), 0, HalfOf(a)>>, None),
              Site("D", <<0, HalfOf(a), HalfOf(a)>>, None)>>,
            <<Edge(0, 1, <<0, 0, 0>>), Edge(0, 1, <<-1, 0, 0>>),
              Edge(0, 1, <<-1, -1, 0>>), Edge(0, 1, <<0, -1, 0>>),
              Edge(0, 2, <<0, 0, 0>>), Edge(0, 2, <<-1, 0, 0>>),
              Edge(0, 2, <<-1, 0, -1>>), Edge(0, 2, <<0, 0, -1>>),
              Edge(0, 3, <<0, 0, 0>>), Edge(0, 3, <<0, -1, 0>>),
              Edge(0, 3, <<0, -1, -1>>), Edge(0, 3, <<0, 0, -1>>)>>)

\* Lattice::try_new(size): the error, or "Ok"
try_new_result(size) ==
    IF size[1] < 0 \/ size[2] < 0 \/ size[3] < 0 THEN "NegativeSize" ELSE "Ok"

try_with_size(l, size) == [l EXCEPT !.size = size]
try_with_sites(l, sites) == [l EXCEPT !.sites = sites]
try_with_edges(l, edges) == [l EXCEPT !.edges = edges]

\* serde_json::from_str::<Lattice>: a document is a JSON object, given by
\* its keys; the keys size, sites and edges are required, others ignored
deserializes(doc) == {"size", "sites", "edges"} \subseteq DOMAIN doc

\* JSON values.  An object is a record, an array of objects a sequence and a
\* number is written as it is; the value of a tags key is JsonNull or
\* JsonArray(v).  Option<Vec<String>> serializes None as null and Some(v) as
\* the array v, and deserializes a null or a missing key as None.
JsonNull == [type |-> "null", items |-> <<>>]

JsonArray(v) == [type |-> "array", items |-> v]

tags_to_json(t) == IF t = None THEN JsonNull ELSE JsonArray(t[1])

tags_from_json(obj) ==
    IF "tags" \notin DOMAIN obj THEN None
    ELSE IF obj.tags.type = "null" THEN None ELSE Some(obj.tags.items)

site_to_json(s) ==
    [kind |-> s.kind, position |-> s.position, tags |-> tags_to_json(s.tags)]

site_from_json(obj) == Site(obj.kind, obj.position, tags_from_json(obj))

edge_to_json(e) ==
    [source |-> e.source, target |-> e.target, delta |-> e.delta,
     tags |-> tags_to_json(e.tags)]

edge_from_json(obj) ==
    [source |-> obj.source, target |-> obj.target, delta |-> obj.delta,
     tags |-> tags_from_json(obj)]

\* serde_json::to_string(&lattice)
to_json(l) ==
    [size |-> l.size,
     sites |-> [i \in 1..Len(l.sites) |-> site_to_json(l.sites[i])],
     edges |-> [q \in 1..Len(l.edges) |-> edge_to_json(l.edges[q])]]

from_json(doc) ==
    Lattice(doc.size,
            [i \in 1..Len(doc.sites) |-> site_from_json(doc.sites[i])],
            [q \in 1..Len(doc.edges) |-> edge_from_json(doc.edges[q])])

\* impl FromStr for Lattice: the error, or "Ok"
from_str_result(doc) ==
    IF ~deserializes(doc) THEN "SerializationError"
    ELSE validate(from_json(doc))

-----------------------------------------------------------------------------
(* main.rs *)

\* an input file that cannot be opened or read
Unreadable == [unreadable |-> TRUE]

\* read(input): the error, or "Ok"
read_result(input) ==
    IF input = Unreadable THEN "IoError" ELSE from_str_result(input)

\* the underlying cause an error carries: the io or serde error it wraps
error_source(err) ==
    CASE err = "IoError" -> <<"io error">>
      [] err = "SerializationError" -> <<"serde error">>
      [] OTHER -> <<>>

\* check_error(res): the lines written to the error stream
check_error(res) ==
    IF res = "Ok" THEN <<>>
    ELSE <<<<"Error", res>>>>
             \o [k \in 1..Len(error_source(res)) |->
                    <<"Cause", error_source(res)[k]>>]

\* the commands check, drop -x -y -z and expand -x 2 on the lattice read
run_command(cmd, l) ==
    CASE cmd = "check" -> l
      [] cmd = "drop" -> drop_along(drop_along(drop_along(l, "X"), "Y"), "Z")
      [] cmd = "expand" -> expand(l, 2, 1, 1)

\* the process has not ended
Running == -1

\* main returns after check_error: the status of a process whose main
\* returned
main_exit_status(res) == 0

-----------------------------------------------------------------------------
(* The input lattices *)

Deltas ==
    {<<d, 0, 0>> : d \in (-MaxDelta)..MaxDelta}
        \cup {<<0, d, 0>> : d \in (-MaxDelta)..MaxDelta}
        \cup {<<0, 0, d>> : d \in (-MaxDelta)..MaxDelta}
        \cup {<<-1, -1, -1>>, <<1, -1, 2>>}

\* site k of an input lattice: distinct kinds, positions and tags
InputSite(k) ==
    IF k % 2 = 0 THEN Site("A", <<k, 0, 0>>, None)
                 ELSE Site("B", <<k, 1, 2>>, Some(<<"core">>))

InputSites(n) == [k \in 1..n |-> InputSite(k - 1)]

InputEdges(n) ==
    {Edge(s, t, d) : s \in 0..(n - 1), t \in 0..(n - 1), d \in Deltas}

\* a second edge, so that the order of the edges shows
SecondEdge == [Edge(0, 0, <<0, 1, 0>>) EXCEPT !.tags = Some(<<"bond">>)]

InputSizes == {<<1, 2, 3>>, <<2, 0, 1>>}

ExpandInputs ==
    UNION {
        {Lattice(sz, InputSites(n), es) :
            sz \in InputSizes,
            es \in {<<>>} \cup {<<e>> : e \in InputEdges(n)}
                          \cup {<<e, SecondEdge>> : e \in InputEdges(n)}}
        : n \in 0..MaxSites}

NoArg == <<>>

NoOp == [name |-> "input", axis |-> "X", amount |-> 0, arg |-> NoArg]

\* the cells of the source's tests: sc(1.0) with one edge along X
TestCell(d) == try_with_edges(sc(2), <<Edge(0, 0, <<d, 0, 0>>)>>)

\* a two-site cell with an edge back to site 0, a forward edge and a loop
TwoSiteCell ==
    Lattice(<<2, 4, 2>>, InputSites(2),
            <<Edge(1, 0, <<-1, 0, 0>>), Edge(0, 1, <<0, 0, 0>>),
              Edge(1, 1, <<0, 1, 0>>)>>)

PipelineInputs == {sc(2), bcc(2), fcc(2), TestCell(1), TestCell(-1), TwoSiteCell}

\* a valid cell whose sites lie left of, below and beyond the image of a mask:
\* positions (-0.5, -0.5, 0) and (0.5, 2.5, -1.5)
OffsetCell ==
    Lattice(<<2, 2, 2>>,
            <<Site("A", <<-1, -1, 0>>, None), Site("B", <<1, 5, -3>>, None)>>,
            <<Edge(0, 1, <<0, 0, 0>>)>>)

\* a one-site cell with two edges; at (0, 0, 1.0) and at (1.0, 1.0, 0) the
\* site and its replicas along x lie under one pixel of a 2x2 mask laid
\* along x
CornerCell(position) ==
    Lattice(<<2, 2, 2>>, <<Site("A", position, None)>>,
            <<Edge(0, 0, <<-1, 0, 0>>), Edge(0, 0, <<0, 1, 0>>)>>)

MaskInputs ==
    PipelineInputs
        \cup {OffsetCell, CornerCell(<<0, 0, 2>>), CornerCell(<<2, 2, 0>>)}

\* masks: a 1x1 image of alpha 128, and a 2x2 image with opaque, clear and
\* translucent pixels, at one pixel per unit
UniformMask ==
    [width |-> 1, height |-> 1, ppu |-> 1, image |-> [xy \in {<<0, 0>>} |-> 128]]

CheckerMask ==
    [width |-> 2, height |-> 2, ppu |-> 1,
     image |-> [xy \in (0..1) \X (0..1) |->
                  CASE xy = <<0, 0>> -> 255
                    [] xy = <<1, 1>> -> 0
                    [] OTHER -> 128]]

Masks == {UniformMask, CheckerMask}

\* the draws of the generator, in 256ths of [0, 1)
Draws == {0, 255}

\* a mask or an alloy samples at most MaxMasked sites
MaxMasked == 4

Kinds == {"A", "B"}

\* the alloys the sites are drawn from: those Alloy::try_new builds from
\* these kinds and ratios
AlloyTargets ==
    {<<<<"C", "D">>, <<1, 1>>>>, <<<<"C", "B">>, <<2, 0>>>>,
     <<<<"D", "C">>, <<0, 1>>>>, <<<<"C">>, <<0>>>>}

Alloys ==
    {Alloy(t[1], t[2]) :
        t \in {u \in AlloyTargets : alloy_try_new_result(u[1], u[2]) = "Ok"}}

\* the k-th kind of an alloy
KindAt(k) ==
    CASE k = 1 -> "A" [] k = 2 -> "B" [] k = 3 -> "C" [] k = 4 -> "D"
      [] OTHER -> "E"

KindLists == {[k \in 1..n |-> KindAt(k)] : n \in 0..MaxKinds}

\* ratio lists of up to MaxKinds weights, and the list of the tests
RatioLists ==
    UNION {[1..n -> 0..MaxWeight] : n \in 0..MaxKinds} \cup {<<100, 0>>}

TargetLists == {[i \in 1..Len(r) |-> <<KindAt(i), r[i]>>] : r \in RatioLists}

\* cells of two sites and three edges, periodic along several axes or none
DropDeltas == {<<1, 0, 0>>, <<0, -1, 0>>, <<1, 1, 0>>, <<0, 0, 0>>}

DropInputs ==
    PipelineInputs
        \cup {Lattice(<<2, 2, 2>>, InputSites(2),
                      <<Edge(0, 1, d1), Edge(1, 0, d2), Edge(0, 0, d3)>>) :
                  d1 \in DropDeltas, d2 \in DropDeltas, d3 \in DropDeltas}

\* the lattice parameter a: 1.0 and -1.0
LatticeParams == {2, -2}

BuildSizes == {<<2, 2, 2>>, <<0, 4, 2>>, <<-2, 2, 2>>, <<2, 2, -2>>}

BuildSites == {InputSites(n) : n \in 0..MaxSites}

\* edge lists whose endpoints range over 0..MaxSites: some name no site
BuildEdges ==
    {<<>>}
        \cup {<<Edge(s, t, <<-1, 0, 0>>)>> : s \in 0..MaxSites, t \in 0..MaxSites}
        \cup {<<Edge(0, 0, <<1, 0, 0>>), Edge(s, 0, <<0, 0, 1>>)>> :
                  s \in 0..MaxSites}

\* a document written by hand: no tags key on the site, tags on the edge
HandDoc(size) ==
    [size |-> size,
     sites |-> <<[kind |-> "A", position |-> <<0, 0, 0>>]>>,
     edges |-> <<[source |-> 0, target |-> 0, delta |-> <<1, 0, 0>>,
                  tags |-> JsonArray(<<"bond">>)]>>]

\* documents: the JSON objects with the three keys, and the object of the
\* integration tests, which has neither size nor edges
Docs ==
    {[size |-> sz,
      sites |-> [i \in 1..Len(st) |-> site_to_json(st[i])],
      edges |-> [q \in 1..Len(es) |-> edge_to_json(es[q])]] :
        sz \in {<<2, 2, 2>>, <<2, -2, 2>>}, st \in BuildSites, es \in BuildEdges}
        \cup {HandDoc(<<2, 2, 2>>), HandDoc(<<2, -2, 2>>)}
        \cup {[sites |-> st, vertices |-> es] : st \in BuildSites, es \in BuildEdges}

\* what the command-line program is given: a command and an input file
Commands == {"check", "drop", "expand"}

CliInputs == Docs \cup {Unreadable}

-----------------------------------------------------------------------------
(* The operations.  Each consumes the lattice the caller holds. *)

Ready == fuel > 0 /\ IsLattice(lattice)

\* the operation returned the lattice l
Returns(l, o) ==
    /\ lattice' = l
    /\ prev' = lattice
    /\ op' = o
    /\ result' = "Ok"
    /\ fuel' = fuel - 1
    /\ UNCHANGED <<alloy, picked, stderr, exit_status>>

\* the operation failed with the error err: the caller holds no lattice
Fails(err, o) ==
    /\ lattice' = NoLattice
    /\ prev' = lattice
    /\ op' = o
    /\ result' = err
    /\ fuel' = fuel - 1
    /\ UNCHANGED <<alloy, picked, stderr, exit_status>>

Expand(axis, amount) ==
    /\ Ready
    /\ Returns(expand_along(lattice, axis, amount),
               [name |-> "expand_along", axis |-> axis, amount |-> amount,
                arg |-> NoArg])

expand_x == \E amount \in 0..MaxAmount : Expand("X", amount)
expand_y == \E amount \in 0..MaxAmount : Expand("Y", amount)
expand_z == \E amount \in 0..MaxAmount : Expand("Z", amount)

Expand3 ==
    /\ Ready
    /\ \E x \in 1..2, y \in 1..2, z \in 1..2 :
         Returns(expand(lattice, x, y, z),
                 [name |-> "expand", axis |-> "X", amount |-> <<x, y, z>>,
                  arg |-> NoArg])

ExpandAll ==
    /\ Ready
    /\ \E amount \in 0..2 :
         Returns(expand_all(lattice, amount),
                 [name |-> "expand_all", axis |-> "X", amount |-> amount,
                  arg |-> NoArg])

Drop(axis) ==
    /\ Ready
    /\ Returns(drop_along(lattice, axis),
               [name |-> "drop_along", axis |-> axis, amount |-> 0,
                arg |-> NoArg])

drop_x == Drop("X")
drop_y == Drop("Y")
drop_z == Drop("Z")

DropAll ==
    /\ Ready
    /\ Returns(drop_all(lattice),
               [name |-> "drop_all", axis |-> "X", amount |-> 0, arg |-> NoArg])

\* apply_mask aborts (index out of bounds) on an edge that names no site
ApplyMask(axis) ==
    /\ Ready
    /\ Len(lattice.sites) <= MaxMasked
    /\ \E mask \in Masks, draws \in [1..Len(lattice.sites) -> Draws] :
         LET o == [name |-> "apply_mask", axis |-> axis, amount |-> 0,
                   arg |-> [mask |-> mask, draws |-> draws]]
         IN  IF mask_panics(lattice, site_mask_of(lattice, mask, axis, draws))
             THEN Fails("Panic", o)
             ELSE Returns(apply_mask(lattice, mask, axis, draws), o)

apply_mask_x == ApplyMask("X")
apply_mask_y == ApplyMask("Y")
apply_mask_z == ApplyMask("Z")

AlloySites ==
    /\ Ready
    /\ Len(lattice.sites) <= MaxMasked
    /\ \E source \in Kinds, target \in Alloys :
         \E draws \in [1..count_kind(lattice, source) ->
                          0..(SumTo(target.weights, Len(target.weights)) - 1)] :
            Returns(alloy_sites(lattice, source, target, draws),
                    [name |-> "alloy_sites", axis |-> "X", amount |-> 0,
                     arg |-> [source |-> source, target |-> target,
                              draws |-> draws]])

\* an operation on alloys: the lattice held stays
AlloyStep(a, kind, err, o) ==
    /\ alloy' = a
    /\ picked' = kind
    /\ op' = o
    /\ result' = err
    /\ fuel' = fuel - 1
    /\ prev' = lattice
    /\ UNCHANGED <<lattice, stderr, exit_status>>

AlloyTryNew ==
    /\ fuel > 0
    /\ \E kinds \in KindLists, ratios \in RatioLists :
         AlloyStep(IF alloy_try_new_result(kinds, ratios) = "Ok"
                   THEN Alloy(kinds, ratios) ELSE NoAlloy,
                   NoKind,
                   alloy_try_new_result(kinds, ratios),
                   [name |-> "alloy_try_new", axis |-> "X", amount |-> 0,
                    arg |-> [kinds |-> kinds, ratios |-> ratios]])

AlloyTryFromTargets ==
    /\ fuel > 0
    /\ \E targets \in TargetLists :
         AlloyStep(IF alloy_try_from_targets_result(targets) = "Ok"
                   THEN Alloy(kinds_of(targets), ratios_of(targets))
                   ELSE NoAlloy,
                   NoKind,
                   alloy_try_from_targets_result(targets),
                   [name |-> "alloy_try_from_targets", axis |-> "X",
                    amount |-> 0,
                    arg |-> [kinds |-> kinds_of(targets),
                             ratios |-> ratios_of(targets)]])

\* Alloy::pick with the draw x of the generator
AlloyPick ==
    /\ fuel > 0
    /\ IsAlloy(alloy)
    /\ \E x \in 0..(SumTo(alloy.weights, Len(alloy.weights)) - 1) :
         AlloyStep(alloy, pick(alloy, x), "Ok",
                   [name |-> "pick", axis |-> "X", amount |-> 0, arg |-> x])

\* the command-line program, from its start to its end
Main ==
    /\ fuel > 0
    /\ exit_status = Running
    /\ \E cmd \in Commands, input \in CliInputs :
         LET res == read_result(input)
         IN  /\ lattice' = IF res = "Ok"
                           THEN run_command(cmd, from_json(input))
                           ELSE NoLattice
             /\ prev' = lattice
             /\ op' = [name |-> "main", axis |-> "X", amount |-> 0,
                       arg |-> [cmd |-> cmd, input |-> input]]
             /\ result' = res
             /\ stderr' = check_error(res)
             /\ exit_status' = main_exit_status(res)
             /\ fuel' = fuel - 1
             /\ UNCHANGED <<alloy, picked>>

\* a try_with_* call: the lattice with the field replaced, validated
Build(name, l, input) ==
    LET o == [name |-> name, axis |-> "X", amount |-> 0, arg |-> input]
    IN  IF validate(l) = "Ok" THEN Returns(l, o) ELSE Fails(validate(l), o)

TryWithSize ==
    /\ Ready
    /\ \E size \in BuildSizes :
         Build("try_with_size", try_with_size(lattice, size), size)

TryWithSites ==
    /\ Ready
    /\ \E sites \in BuildSites :
         Build("try_with_sites", try_with_sites(lattice, sites), sites)

TryWithEdges ==
    /\ Ready
    /\ \E edges \in BuildEdges :
         Build("try_with_edges", try_with_edges(lattice, edges), edges)

\* Lattice::try_new(size): a construction, the lattice held is replaced
TryNew ==
    /\ Ready
    /\ \E size \in BuildSizes :
         LET o == [name |-> "try_new", axis |-> "X", amount |-> 0, arg |-> size]
         IN  IF try_new_result(size) = "Ok"
             THEN Returns(Lattice(size, <<>>, <<>>), o)
             ELSE Fails(try_new_result(size), o)

\* the factories, for a lattice parameter of either sign
Factory(name, l, a) ==
    Returns(l, [name |-> name, axis |-> "X", amount |-> 0, arg |-> a])

Sc == Ready /\ \E a \in LatticeParams : Factory("sc", sc(a), a)
Bcc == Ready /\ \E a \in LatticeParams : Factory("bcc", bcc(a), a)
Fcc == Ready /\ \E a \in LatticeParams : Factory("fcc", fcc(a), a)

\* parsing a document: a construction, the lattice held is replaced
FromStr ==
    /\ Ready
    /\ \E doc \in Docs :
         LET o == [name |-> "from_str", axis |-> "X", amount |-> 0, arg |-> doc]
         IN  IF from_str_result(doc) = "Ok"
             THEN Returns(from_json(doc), o)
             ELSE Fails(from_str_result(doc), o)

-----------------------------------------------------------------------------
(* Specifications *)

Starts(inputs, n) ==
    /\ lattice \in inputs
    /\ prev = lattice
    /\ op = NoOp
    /\ result = "Ok"
    /\ fuel = n
    /\ alloy = NoAlloy
    /\ picked = NoKind
    /\ stderr = <<>>
    /\ exit_status = Running

\* the pipeline: a cell of the factories or of the tests, then MaxOps
\* operations
Init == Starts(PipelineInputs, MaxOps)

Next ==
    \/ expand_x \/ expand_y \/ expand_z \/ Expand3 \/ ExpandAll
    \/ drop_x \/ drop_y \/ drop_z \/ DropAll
    \/ apply_mask_x \/ apply_mask_y \/ apply_mask_z
    \/ AlloySites
    \/ TryWithSize \/ TryWithSites \/ TryWithEdges \/ FromStr
    \/ TryNew \/ Sc \/ Bcc \/ Fcc
    \/ AlloyTryNew \/ AlloyTryFromTargets \/ AlloyPick

Spec == Init /\ [][Next]_vars

\* one expansion of an input lattice
InitExpand == Starts(ExpandInputs, 1)

NextExpand == expand_x \/ expand_y \/ expand_z

SpecExpand == InitExpand /\ [][NextExpand]_vars

\* one mask applied to a cell or to a cell expanded along X
InitMask == Starts(MaskInputs, 2)

NextMask ==
    \/ (fuel = 2 /\ expand_x)
    \/ apply_mask_x \/ apply_mask_y \/ apply_mask_z

SpecMask == InitMask /\ [][NextMask]_vars

\* one construction on a factory cell, of positive or negative parameter
\* one run of the command-line program
InitCli == Starts({sc(2)}, 1)

NextCli == Main

SpecCli == InitCli /\ [][NextCli]_vars

\* one expansion along the three axes
InitExpand3 == Starts(DropInputs, 1)

NextExpand3 == Expand3 \/ ExpandAll

SpecExpand3 == InitExpand3 /\ [][NextExpand3]_vars

\* the drops alone, chained twice
InitDrop == Starts(DropInputs, 2)

NextDrop == drop_x \/ drop_y \/ drop_z \/ DropAll

SpecDrop == InitDrop /\ [][NextDrop]_vars

\* an alloy is built and a kind is picked from it
InitAlloy == Starts({sc(2)}, 2)

NextAlloy ==
    \/ (fuel = 2 /\ (AlloyTryNew \/ AlloyTryFromTargets))
    \/ (fuel = 1 /\ AlloyPick)

SpecAlloy == InitAlloy /\ [][NextAlloy]_vars

\* the sites of a cell are alloyed, twice
InitAlloySites == Starts(PipelineInputs, 2)

NextAlloySites == AlloySites

SpecAlloySites == InitAlloySites /\ [][NextAlloySites]_vars

InitBuild == Starts({sc(2), bcc(2), sc(-2)}, 1)

NextBuild ==
    \/ TryWithSize \/ TryWithSites \/ TryWithEdges \/ FromStr
    \/ TryNew \/ Sc \/ Bcc \/ Fcc

SpecBuild == InitBuild /\ [][NextBuild]_vars

-----------------------------------------------------------------------------
(* Statements about expansion.  In a state reached by expand_along, prev   *)
(* is the lattice it consumed, op its arguments, lattice what it returned. *)

Expanded == op.name = "expand_along"

\* the num and modulus of the python_mod call that move_along makes for
\* edge q of prev in replica i
CallNum(i, q) ==
    LET n0 == Len(prev.sites)
        e  == prev.edges[q]
    IN  i * n0 + e.target + delta_along(e, op.axis) * n0

CallModulus == op.amount * Len(prev.sites)

\* C1: the edge that expand_along produces for edge q of replica i has
\* source i*n0 + s, target ((i + d) floor-mod m)*n0 + t and delta along the
\* axis floor((i + d) / m); it stands at position i*e0 + q (q counted from 0).
C1_ExpandEdgeFloor ==
    (Expanded /\ op.amount >= 1) =>
        LET n0 == Len(prev.sites)
            e0 == Len(prev.edges)
            m  == op.amount
        IN  /\ Len(lattice.edges) = m * e0
            /\ \A i \in 0..(m - 1) : \A q \in 1..e0 :
                 LET e  == prev.edges[q]
                     d  == delta_along(e, op.axis)
                     ne == lattice.edges[i * e0 + q]
                 IN  /\ ne.source = i * n0 + e.source
                     /\ ne.target = FloorMod(i + d, m) * n0 + e.target
                     /\ delta_along(ne, op.axis) = FloorDiv(i + d, m)

\* C2: for every call python_mod(num, modulus) that an expansion makes
\* (modulus >= 1, num negative, zero or positive), the result <<r, q>> has
\* 0 <= r < modulus, q = floor(num / modulus) and num = q*modulus + r.
C2_PythonModFloor ==
    (Expanded /\ CallModulus >= 1) =>
        \A i \in 0..(op.amount - 1) : \A q \in 1..Len(prev.edges) :
            LET num == CallNum(i, q)
                pm  == python_mod(num, CallModulus)
            IN  /\ 0 <= pm[1]
                /\ pm[1] < CallModulus
                /\ pm[2] = FloorDiv(num, CallModulus)
                /\ num = pm[2] * CallModulus + pm[1]

\* the single-site cell whose only edge is (0, 0, delta)
IsSingleEdgeCell(l, delta) ==
    /\ Len(l.sites) = 1
    /\ Len(l.edges) = 1
    /\ l.edges[1].source = 0
    /\ l.edges[1].target = 0
    /\ l.edges[1].delta = delta

\* C4: the single-site cell with the edge (0,0,(-1,0,0)) expanded along X by
\* m >= 1 has m edges; edge i has source i, target (i-1) floor-mod m and
\* X-delta -1 if i = 0 and 0 otherwise.
C4_NegativeDeltaCell ==
    (Expanded /\ op.axis = "X" /\ op.amount >= 1
        /\ IsSingleEdgeCell(prev, <<-1, 0, 0>>)) =>
        /\ Len(lattice.edges) = op.amount
        /\ \A i \in 0..(op.amount - 1) :
             LET ne == lattice.edges[i + 1]
             IN  /\ ne.source = i
                 /\ ne.target = FloorMod(i - 1, op.amount)
                 /\ ne.delta[1] = (IF i = 0 THEN -1 ELSE 0)

\* C5: the single-site cell with the edge (0,0,(1,0,0)) expanded along X by
\* m >= 1 has m edges; edge i has source i, target (i+1) mod m and X-delta 1
\* if i = m-1 and 0 otherwise.
C5_PositiveDeltaCell ==
    (Expanded /\ op.axis = "X" /\ op.amount >= 1
        /\ IsSingleEdgeCell(prev, <<1, 0, 0>>)) =>
        /\ Len(lattice.edges) = op.amount
        /\ \A i \in 0..(op.amount - 1) :
             LET ne == lattice.edges[i + 1]
             IN  /\ ne.source = i
                 /\ ne.target = FloorMod(i + 1, op.amount)
                 /\ ne.delta[1] = (IF i = op.amount - 1 THEN 1 ELSE 0)

\* the forward neighbour and the wrapped carry both occur: m = 2
C5_Witness ==
    /\ Expanded /\ op.axis = "X" /\ op.amount = 2
    /\ IsSingleEdgeCell(prev, <<1, 0, 0>>)
    /\ lattice.edges[1].target = 1 /\ lattice.edges[1].delta = <<0, 0, 0>>
    /\ lattice.edges[2].target = 0 /\ lattice.edges[2].delta = <<1, 0, 0>>

\* C6: expanding by a and then by b along the same axis gives the lattice
\* that expanding by a*b gives: same sites, same size, same edges.
C6_ExpandAssociative ==
    (Expanded /\ op.amount >= 1) =>
        \A b \in 1..MaxAmount :
            expand_along(lattice, op.axis, b)
                = expand_along(prev, op.axis, op.amount * b)

\* C7: expand_along by m >= 0 yields m*n sites and m*e edges and multiplies
\* the size along the axis by m.
C7_ExpandCounts ==
    Expanded =>
        /\ Len(lattice.sites) = op.amount * Len(prev.sites)
        /\ Len(lattice.edges) = op.amount * Len(prev.edges)
        /\ size_along(lattice, op.axis) = op.amount * size_along(prev, op.axis)

C7_Witness ==
    /\ Expanded /\ op.amount = 3
    /\ Len(prev.sites) = 2 /\ Len(prev.edges) = 2
    /\ Len(lattice.sites) = 6 /\ Len(lattice.edges) = 6
    /\ size_along(prev, op.axis) > 0

\* C8: the site at index i*n0 + k is original site k moved by i*s0 along
\* the axis.
C8_ExpandSites ==
    Expanded =>
        LET n0 == Len(prev.sites)
            s0 == size_along(prev, op.axis)
        IN  \A i \in 0..(op.amount - 1) : \A k \in 0..(n0 - 1) :
                lattice.sites[i * n0 + k + 1]
                    = [prev.sites[k + 1] EXCEPT
                         !.position[AxisIndex(op.axis)] = @ + i * s0]

C8_Witness ==
    /\ Expanded /\ op.amount >= 2 /\ Len(prev.sites) = 2
    /\ size_along(prev, op.axis) > 0
    /\ lattice.sites[4].kind = prev.sites[2].kind
    /\ lattice.sites[4].position # prev.sites[2].position

\* the expansion wrapped a negative multi-cell delta and both orders of
\* expansion give the same 8-site lattice
C6_Witness ==
    /\ Expanded /\ op.amount = 2 /\ Len(prev.sites) = 2
    /\ \E q \in 1..Len(prev.edges) :
         /\ delta_along(prev.edges[q], op.axis) = -2
         /\ delta_along(lattice.edges[q], op.axis) = -1
    /\ Len(expand_along(lattice, op.axis, 2).sites) = 8
    /\ expand_along(lattice, op.axis, 2) = expand_along(prev, op.axis, 4)

-----------------------------------------------------------------------------
(* Statements about the pipeline *)

\* C3: starting from a valid lattice, after any sequence of the public
\* transformations the lattice held satisfies both invariants: every edge
\* endpoint is a site index and no size component is negative.
C3_TransformationsKeepValid ==
    IsLattice(lattice) =>
        /\ \A q \in 1..Len(lattice.edges) :
             /\ lattice.edges[q].source < Len(lattice.sites)
             /\ lattice.edges[q].target < Len(lattice.sites)
        /\ \A c \in 1..3 : lattice.size[c] >= 0

-----------------------------------------------------------------------------
(* Statements about masks *)

Masked == op.name = "apply_mask"

\* the keep decision of each site of prev under the mask and the draws
Decisions == site_mask_of(prev, op.arg.mask, op.axis, op.arg.draws)

\* the number of kept sites with an original index below i (0-based)
RankOf(i) == Cardinality({k \in 1..i : Decisions[k]})

BothKept(q) ==
    /\ Decisions[prev.edges[q].source + 1]
    /\ Decisions[prev.edges[q].target + 1]

\* the number of surviving edges before edge q
EdgeRankOf(q) == Cardinality({p \in 1..(q - 1) : BothKept(p)})

\* C9: apply_mask on a valid lattice returns the kept sites in their
\* original order and the edges with both endpoints kept, in their original
\* order, each endpoint replaced by its rank among the kept sites; so every
\* surviving endpoint is below the number of surviving sites.
C9_MaskReindex ==
    (Masked /\ validate(prev) = "Ok") =>
        /\ result = "Ok"
        /\ lattice.size = prev.size
        /\ Len(lattice.sites) = RankOf(Len(prev.sites))
        /\ \A i \in 1..Len(prev.sites) :
             Decisions[i] => lattice.sites[RankOf(i - 1) + 1] = prev.sites[i]
        /\ Len(lattice.edges) = EdgeRankOf(Len(prev.edges) + 1)
        /\ \A q \in 1..Len(prev.edges) :
             BothKept(q) =>
                 lattice.edges[EdgeRankOf(q) + 1]
                     = [prev.edges[q] EXCEPT
                          !.source = RankOf(prev.edges[q].source),
                          !.target = RankOf(prev.edges[q].target)]
        /\ \A q \in 1..Len(lattice.edges) :
             /\ lattice.edges[q].source < Len(lattice.sites)
             /\ lattice.edges[q].target < Len(lattice.sites)

\* a site is dropped before a kept one, an edge is dropped and a surviving
\* edge is renumbered at both ends
C9_Witness ==
    /\ Masked /\ validate(prev) = "Ok" /\ result = "Ok"
    /\ \E i \in 1..Len(prev.sites) : \E k \in (i + 1)..Len(prev.sites) :
         ~Decisions[i] /\ Decisions[k]
    /\ 0 < Len(lattice.edges) /\ Len(lattice.edges) < Len(prev.edges)
    /\ \E q \in 1..Len(prev.edges) :
         /\ BothKept(q)
         /\ lattice.edges[EdgeRankOf(q) + 1].source < prev.edges[q].source
         /\ lattice.edges[EdgeRankOf(q) + 1].target < prev.edges[q].target

-----------------------------------------------------------------------------
(* Statements about construction *)

\* the lattice a construction would build from its input, before validation
Candidate ==
    CASE op.name = "try_new" -> [size |-> op.arg, sites |-> <<>>, edges |-> <<>>]
      [] op.name = "try_with_size"  -> [prev EXCEPT !.size = op.arg]
      [] op.name = "try_with_sites" -> [prev EXCEPT !.sites = op.arg]
      [] op.name = "try_with_edges" -> [prev EXCEPT !.edges = op.arg]
      [] op.name = "from_str" ->
            [size |-> op.arg.size, sites |-> op.arg.sites, edges |-> op.arg.edges]

\* some edge of l has a source or a target that is no site index
HasDanglingEdge(l) ==
    \E q \in 1..Len(l.edges) :
        l.edges[q].source >= Len(l.sites) \/ l.edges[q].target >= Len(l.sites)

\* the document has the shape of a lattice
IsLatticeDoc(doc) == {"size", "sites", "edges"} \subseteq DOMAIN doc

\* C10: try_with_edges, try_with_sites and parsing fail with
\* InconsistentEdges, and return no lattice, whenever an edge of the lattice
\* to build has a source or target >= the number of sites.
C10_InconsistentEdgesRejected ==
    (/\ op.name \in {"try_with_edges", "try_with_sites", "from_str"}
     /\ (op.name = "from_str" => IsLatticeDoc(op.arg))
     /\ HasDanglingEdge(Candidate)) =>
        /\ result = "InconsistentEdges"
        /\ ~IsLattice(lattice)

\* a document with a negative size and an edge to a missing site is
\* rejected for its edges
C10_Witness ==
    /\ op.name = "from_str"
    /\ IsLatticeDoc(op.arg)
    /\ HasDanglingEdge(Candidate)
    /\ Len(op.arg.sites) > 0
    /\ \E c \in 1..3 : op.arg.size[c] < 0
    /\ result = "InconsistentEdges"
    /\ ~IsLattice(lattice)

\* some size component of l is negative
HasNegativeSize(l) == \E c \in 1..3 : l.size[c] < 0

SizeBuilt ==
    /\ op.name \in {"try_new", "try_with_size", "from_str"}
    /\ (op.name = "from_str" => IsLatticeDoc(op.arg))

\* C11 as stated: try_new, try_with_size and parsing fail with NegativeSize
\* whenever a size component is negative, and succeed when none is.
C11_NegativeSizeAlways ==
    SizeBuilt =>
        /\ HasNegativeSize(Candidate) => result = "NegativeSize"
        /\ ~HasNegativeSize(Candidate) => result = "Ok"

\* C11 amended: try_new, try_with_size and parsing fail with NegativeSize
\* exactly when a size component is negative and every edge endpoint of the
\* lattice to build is a site index (a dangling edge is reported first, as
\* InconsistentEdges); they succeed, with the size given, exactly when no
\* component is negative and no edge dangles.
C11_NegativeSizeRejected ==
    SizeBuilt =>
        /\ result = "NegativeSize"
             <=> (HasNegativeSize(Candidate) /\ ~HasDanglingEdge(Candidate))
        /\ result = "Ok"
             <=> (~HasNegativeSize(Candidate) /\ ~HasDanglingEdge(Candidate))
        /\ result = "Ok" => (IsLattice(lattice) /\ lattice.size = Candidate.size)
        /\ result # "Ok" => ~IsLattice(lattice)

\* a resize to a size whose last component alone is negative is rejected
C11_Witness ==
    /\ op.name = "try_with_size"
    /\ op.arg[1] >= 0 /\ op.arg[3] < 0
    /\ Len(prev.edges) > 0
    /\ result = "NegativeSize"
    /\ ~IsLattice(lattice)

Constructions ==
    {"try_new", "sc", "bcc", "fcc", "try_with_size", "try_with_sites",
     "try_with_edges", "from_str"}

\* C12: a construction returns a typed failure or a lattice with no negative
\* size component and no dangling edge, also for a negative parameter a.
C12_ConstructionsValid ==
    (op.name \in Constructions /\ IsLattice(lattice)) =>
        /\ ~HasNegativeSize(lattice)
        /\ ~HasDanglingEdge(lattice)

TryWith == op.name \in {"try_with_size", "try_with_sites", "try_with_edges"}

\* C13: try_with_size, try_with_sites and try_with_edges fail exactly when
\* the lattice with the one field replaced violates an invariant; otherwise
\* they return the lattice with that field replaced and the other two
\* unchanged; a failure returns no lattice.
C13_TryWithTotal ==
    TryWith =>
        /\ result # "Ok"
             <=> (HasNegativeSize(Candidate) \/ HasDanglingEdge(Candidate))
        /\ result # "Ok" => ~IsLattice(lattice)
        /\ result = "Ok" =>
             /\ IsLattice(lattice)
             /\ (op.name = "try_with_size" =>
                    /\ lattice.size = op.arg
                    /\ lattice.sites = prev.sites
                    /\ lattice.edges = prev.edges)
             /\ (op.name = "try_with_sites" =>
                    /\ lattice.sites = op.arg
                    /\ lattice.size = prev.size
                    /\ lattice.edges = prev.edges)
             /\ (op.name = "try_with_edges" =>
                    /\ lattice.edges = op.arg
                    /\ lattice.size = prev.size
                    /\ lattice.sites = prev.sites)

\* the edges of a cell are replaced and its sites and size stay
C13_Witness ==
    /\ op.name = "try_with_edges"
    /\ result = "Ok"
    /\ Len(op.arg) = 2
    /\ lattice.edges = op.arg /\ lattice.edges # prev.edges
    /\ Len(lattice.sites) = 2 /\ lattice.sites = prev.sites

\* C14: serializing a lattice to JSON and parsing the result succeeds and
\* gives a lattice of the same size, sites and edges.
C14_JsonRoundTrip ==
    IsLattice(lattice) =>
        /\ from_str_result(to_json(lattice)) = "Ok"
        /\ from_json(to_json(lattice)) = lattice

Dropped == op.name = "drop_along"

\* edge q of the lattice before the drop has no delta along the axis
Retained(q) == delta_along(prev.edges[q], op.axis) = 0

\* the number of retained edges before edge q
RetainedBefore(q) == Cardinality({p \in 1..(q - 1) : Retained(p)})

\* C15: drop_along(axis) removes exactly the edges whose delta along the
\* axis is not 0, keeps the others unchanged and in order, and leaves the
\* sites and the size unchanged.
C15_DropFrame ==
    Dropped =>
        /\ lattice.size = prev.size
        /\ lattice.sites = prev.sites
        /\ Len(lattice.edges)
             = Cardinality({q \in 1..Len(prev.edges) : Retained(q)})
        /\ \A q \in 1..Len(prev.edges) :
             Retained(q) => lattice.edges[RetainedBefore(q) + 1] = prev.edges[q]

\* a drop along y removes the middle edge and keeps two edges, one of
\* them periodic along x
C15_Witness ==
    /\ Dropped /\ op.axis = "Y"
    /\ Len(prev.edges) = 3 /\ Len(lattice.edges) = 2
    /\ ~Retained(2)
    /\ lattice.edges = <<prev.edges[1], prev.edges[3]>>
    /\ delta_along(lattice.edges[1], "X") # 0

\* C16: dropping along an axis a second time changes nothing.
C16_DropIdempotent ==
    Dropped => drop_along(lattice, op.axis) = lattice

\* the second of two drops, on a lattice that has lost edges and has no
\* edge left along the axis, returns the lattice it was given
C16_Witness ==
    /\ Dropped /\ fuel = 0
    /\ Len(lattice.sites) = 2 /\ Len(prev.edges) \in 1..2
    /\ \A q \in 1..Len(prev.edges) : Retained(q)
    /\ lattice = prev

Alloyed == op.name = "alloy_sites"

\* kind is a kind of the alloy a with a weight above 0
HasWeight(a, kind) ==
    \E k \in 1..Len(a.kinds) : a.kinds[k] = kind /\ a.weights[k] > 0

\* C17: alloy_sites keeps the number and order of the sites; a site of
\* another kind is unchanged; a site of the source kind keeps its position
\* and tags and gets a kind of the alloy with a weight above 0; the edges
\* and the size are unchanged.
C17_AlloyFrame ==
    Alloyed =>
        /\ lattice.size = prev.size
        /\ lattice.edges = prev.edges
        /\ Len(lattice.sites) = Len(prev.sites)
        /\ \A i \in 1..Len(prev.sites) :
             IF prev.sites[i].kind # op.arg.source
             THEN lattice.sites[i] = prev.sites[i]
             ELSE /\ lattice.sites[i].position = prev.sites[i].position
                  /\ lattice.sites[i].tags = prev.sites[i].tags
                  /\ HasWeight(op.arg.target, lattice.sites[i].kind)

\* the tagged site of kind B, away from the origin, becomes the only kind
\* with a weight while the site of kind A stays
C17_Witness ==
    /\ Alloyed /\ op.arg.source = "B"
    /\ op.arg.target.weights = <<0, 1>>
    /\ Len(prev.sites) = 2
    /\ prev.sites[2].kind = "B" /\ prev.sites[2].tags # None
    /\ prev.sites[2].position # <<0, 0, 0>>
    /\ lattice.sites[2].kind = "C"
    /\ lattice.sites[1] = prev.sites[1]

AlloyBuilt == op.name \in {"alloy_try_new", "alloy_try_from_targets"}

AllZero(ratios) == \A i \in 1..Len(ratios) : ratios[i] = 0

C19_PickHasWeight ==
    op.name = "pick" =>
        /\ HasWeight(alloy, picked)
        /\ (alloy = Alloy(<<"A", "B">>, <<100, 0>>) => picked = "A")

\* the last draw of the alloy of weights 100 and 0 picks A
C19_Witness ==
    /\ op.name = "pick"
    /\ alloy = Alloy(<<"A", "B">>, <<100, 0>>)
    /\ op.arg = 99
    /\ picked = "A"

\* the alpha of the pixel under site i of the lattice before the mask
AlphaAt(i) ==
    LET xy == project_in_plane(op.axis, prev.sites[i].position)
    IN  op.arg.mask.image[pixel_of(op.arg.mask, xy[1], xy[2])]

\* site i of the lattice before the mask is a site of the lattice after it
Present(i) == \E k \in 1..Len(lattice.sites) : lattice.sites[k] = prev.sites[i]

\* C20: a site is kept exactly when its draw u of [0, 1), here draws[i]/256,
\* is below alpha/255; a site under a pixel of alpha 255 is kept and a site
\* under a pixel of alpha 0 is not, whatever the draw.
C20_KeepThreshold ==
    (Masked /\ result = "Ok") =>
        \A i \in 1..Len(prev.sites) :
            /\ Present(i) <=> (op.arg.draws[i] * 255 < AlphaAt(i) * 256)
            /\ AlphaAt(i) = 255 => Present(i)
            /\ AlphaAt(i) = 0 => ~Present(i)

\* one mask drops a site under a clear pixel on the lowest draw, keeps a
\* site under an opaque pixel on the highest draw, and a site under a
\* translucent pixel goes either way with the draw
C20_Witness ==
    /\ Masked /\ result = "Ok"
    /\ \E i \in 1..Len(prev.sites) :
         AlphaAt(i) = 0 /\ op.arg.draws[i] = 0 /\ ~Present(i)
    /\ \E i \in 1..Len(prev.sites) :
         AlphaAt(i) = 255 /\ op.arg.draws[i] = 255 /\ Present(i)
    /\ \E i \in 1..Len(prev.sites) :
         AlphaAt(i) = 128 /\ op.arg.draws[i] = 255 /\ ~Present(i)

\* the decision the i-th draw gives for site i of the lattice before the mask
Drawn(i) == op.arg.draws[i] * 255 < AlphaAt(i) * 256

\* the number of sites up to site i whose own draw keeps them
DrawnUpTo(i) == Cardinality({k \in 1..i : Drawn(k)})

\* C21: apply_mask takes the i-th draw for site i, whatever the outcome,
\* and filters the sites and the edges by that one decision per site, so
\* the lattice returned is a function of the lattice, the mask and the
\* draws.
C21_OneDrawPerSite ==
    (Masked /\ result = "Ok") =>
        /\ Len(lattice.sites) = DrawnUpTo(Len(prev.sites))
        /\ \A i \in 1..Len(prev.sites) :
             Drawn(i) => lattice.sites[DrawnUpTo(i)] = prev.sites[i]
        /\ Len(lattice.edges)
             = Cardinality({q \in 1..Len(prev.edges) :
                               /\ Drawn(prev.edges[q].source + 1)
                               /\ Drawn(prev.edges[q].target + 1)})

\* a site under an opaque pixel takes a draw that would drop the
\* translucent site after it, which stays on its own draw, while a
\* translucent site before them goes on its draw and an edge goes with it
C21_Witness ==
    /\ Masked /\ result = "Ok"
    /\ \E i \in 1..Len(prev.sites), j \in 1..Len(prev.sites) :
         /\ i < j
         /\ AlphaAt(i) = 255 /\ op.arg.draws[i] = 255 /\ Present(i)
         /\ AlphaAt(j) = 128 /\ op.arg.draws[j] = 0 /\ Present(j)
    /\ \E k \in 1..Len(prev.sites) :
         AlphaAt(k) = 128 /\ op.arg.draws[k] = 255 /\ ~Present(k)
    /\ Len(lattice.edges) < Len(prev.edges)

\* the deltas of the edges of the lattice from site 0 to site t
DeltasTo(t) ==
    {lattice.edges[q].delta :
        q \in {p \in 1..Len(lattice.edges) :
                  lattice.edges[p].source = 0 /\ lattice.edges[p].target = t}}

\* the number of edges of the lattice from site 0 to site t
EdgesTo(t) ==
    Cardinality({p \in 1..Len(lattice.edges) :
                    lattice.edges[p].source = 0 /\ lattice.edges[p].target = t})

\* C22: the factories return size (a, a, a) and fixed motifs: sc one site
\* and the three self-loops (1,0,0), (0,1,0), (0,0,1); bcc two sites and 8
\* edges from site 0 to site 1 with 8 distinct deltas; fcc four sites and
\* 12 edges, 4 with distinct deltas to each of the sites 1, 2 and 3; every
\* endpoint is a site index.
C22_FactoryMotifs ==
    (op.name \in {"sc", "bcc", "fcc"}) =>
        /\ lattice.size = <<op.arg, op.arg, op.arg>>
        /\ ~HasDanglingEdge(lattice)
        /\ (op.name = "sc" =>
              /\ Len(lattice.sites) = 1
              /\ Len(lattice.edges) = 3 /\ EdgesTo(0) = 3
              /\ DeltasTo(0) = {<<1, 0, 0>>, <<0, 1, 0>>, <<0, 0, 1>>})
        /\ (op.name = "bcc" =>
              /\ Len(lattice.sites) = 2
              /\ Len(lattice.edges) = 8 /\ EdgesTo(1) = 8
              /\ Cardinality(DeltasTo(1)) = 8)
        /\ (op.name = "fcc" =>
              /\ Len(lattice.sites) = 4
              /\ Len(lattice.edges) = 12
              /\ \A t \in 1..3 :
                   EdgesTo(t) = 4 /\ Cardinality(DeltasTo(t)) = 4)

\* the body centered cell of a negative parameter
C22_Witness ==
    /\ op.name = "bcc" /\ op.arg < 0
    /\ Len(lattice.edges) = 8
    /\ lattice.sites[2].position = <<-1, -1, -1>>

\* the planar coordinates of site i of the lattice before the mask
PlanarAt(i) == project_in_plane(op.axis, prev.sites[i].position)

\* the pixel the mask reads for site i of the lattice before the mask
PixelAt(i) == pixel_of(op.arg.mask, PlanarAt(i)[1], PlanarAt(i)[2])

\* C23: for every planar coordinate pair, negative ones included, the mask
\* reads column floor(x*ppu) floor-mod width and row
\* height - 1 - (floor(y*ppu) floor-mod height), both inside the image.
C23_MaskTiles ==
    Masked =>
        \A i \in 1..Len(prev.sites) :
            LET mask == op.arg.mask
            IN  /\ PixelAt(i)[1]
                     = FloorMod(FloorTimes(PlanarAt(i)[1], mask.ppu), mask.width)
                /\ PixelAt(i)[2]
                     = mask.height - 1
                         - FloorMod(FloorTimes(PlanarAt(i)[2], mask.ppu),
                                    mask.height)
                /\ PixelAt(i)[1] \in 0..(mask.width - 1)
                /\ PixelAt(i)[2] \in 0..(mask.height - 1)

\* the two axes other than the axis of the operation, as component indices
OtherAxes == (1..3) \ {AxisIndex(op.axis)}

\* C24: expand_along changes nothing off its axis: a replicated site keeps
\* its kind, its tags and its two other coordinates, a replicated edge its
\* tags and its two other delta components, and the two other size
\* components stay.
C24_ExpandFrame ==
    Expanded =>
        LET n0 == Len(prev.sites)
            e0 == Len(prev.edges)
        IN  /\ \A c \in OtherAxes : lattice.size[c] = prev.size[c]
            /\ \A i \in 0..(op.amount - 1) :
                 /\ \A k \in 1..n0 :
                      /\ lattice.sites[i * n0 + k].kind = prev.sites[k].kind
                      /\ lattice.sites[i * n0 + k].tags = prev.sites[k].tags
                      /\ \A c \in OtherAxes :
                           lattice.sites[i * n0 + k].position[c]
                               = prev.sites[k].position[c]
                 /\ \A q \in 1..e0 :
                      /\ lattice.edges[i * e0 + q].tags = prev.edges[q].tags
                      /\ \A c \in OtherAxes :
                           lattice.edges[i * e0 + q].delta[c]
                               = prev.edges[q].delta[c]

\* an expansion along y of a cell with a tagged site off the origin, a
\* tagged edge and an edge with a delta on all three axes
C24_Witness ==
    /\ Expanded /\ op.axis = "Y" /\ op.amount >= 2
    /\ Len(prev.sites) = 2 /\ Len(prev.edges) = 2
    /\ prev.sites[2].tags # None /\ prev.edges[2].tags # None
    /\ prev.edges[1].delta = <<1, -1, 2>>
    /\ lattice.edges[3].delta[1] = 1 /\ lattice.edges[3].delta[3] = 2
    /\ lattice.edges[4].tags = prev.edges[2].tags
    /\ lattice.sites[4].position # prev.sites[2].position

\* the three factors of an expand or an expand_all
Factors ==
    IF op.name = "expand" THEN op.amount
    ELSE <<op.amount, op.amount, op.amount>>

\* C25: expand(x, y, z) is expand_x(x), then expand_y(y), then expand_z(z),
\* and expand_all(n) is expand(n, n, n); the result has x*y*z times the
\* sites and the edges and the size scaled componentwise by (x, y, z).
C25_ExpandSequence ==
    (op.name \in {"expand", "expand_all"}) =>
        LET f == Factors
        IN  /\ lattice
                 = expand_along(
                       expand_along(expand_along(prev, "X", f[1]), "Y", f[2]),
                       "Z", f[3])
            /\ (op.name = "expand_all" =>
                    lattice = expand(prev, op.amount, op.amount, op.amount))
            /\ Len(lattice.sites) = f[1] * f[2] * f[3] * Len(prev.sites)
            /\ Len(lattice.edges) = f[1] * f[2] * f[3] * Len(prev.edges)
            /\ \A c \in 1..3 : lattice.size[c] = f[c] * prev.size[c]

\* expand(2, 1, 2) of a two-site, three-edge cell: the second site of the
\* result is the second site of the cell and the third is the first site of
\* the cell moved along x
C25_Witness ==
    /\ op.name = "expand" /\ op.amount = <<2, 1, 2>>
    /\ Len(prev.sites) = 2 /\ Len(prev.edges) = 3
    /\ Len(lattice.sites) = 8 /\ Len(lattice.edges) = 12
    /\ lattice.sites[2] = prev.sites[2]
    /\ lattice.sites[3] = site_move(prev.sites[1], "X", prev.size[1])
    /\ lattice.size = <<2 * prev.size[1], prev.size[2], 2 * prev.size[3]>>

\* C26: when a command of the program returns an error, the program prints
\* the error, and its underlying cause if it has one, and ends with a
\* status that is not 0.
C26_CliErrorExit ==
    (op.name = "main" /\ result # "Ok") =>
        /\ Len(stderr) >= 1
        /\ stderr[1] = <<"Error", result>>
        /\ (error_source(result) # <<>> => Len(stderr) = 2)
        /\ exit_status # 0

\* C27: expanding a valid lattice by 1 along any axis returns the same
\* sites, the same edges and the same size, also when an edge has a
\* negative delta and site 0 as its target.
C27_ExpandByOne ==
    (Expanded /\ op.amount = 1) =>
        /\ lattice.sites = prev.sites
        /\ lattice.edges = prev.edges
        /\ lattice.size = prev.size

\* C28: apply_mask on a lattice reached from a valid lattice by public
\* transformations looks up its keep table and its reindex table with edge
\* endpoints below the number of sites only, and does not abort.
C28_MaskInBounds ==
    Masked =>
        /\ \A q \in 1..Len(prev.edges) :
             /\ prev.edges[q].source < Len(prev.sites)
             /\ Decisions[prev.edges[q].source + 1] =>
                    prev.edges[q].target < Len(prev.sites)
        /\ result # "Panic"

\* C29: move_along conserves the unwrapped neighbour: for the edge
\* (s, t, delta) moved to replica i < limit of a cell of nsites sites,
\* new_target + new_delta * (limit * nsites)
\*     = (i * nsites + t) + old_delta * nsites
\* along the axis, and new_source = i * nsites + s.
C29_MoveAlongConserves ==
    (Expanded /\ op.amount >= 1 /\ Len(prev.sites) >= 1) =>
        LET nsites == Len(prev.sites)
            e0     == Len(prev.edges)
            limit  == op.amount
        IN  \A i \in 0..(limit - 1) : \A q \in 1..e0 :
                LET old == prev.edges[q]
                    new == lattice.edges[i * e0 + q]
                IN  /\ new.target + delta_along(new, op.axis) * (limit * nsites)
                         = (i * nsites + old.target)
                             + delta_along(old, op.axis) * nsites
                    /\ new.source = i * nsites + old.source

\* an edge that leaves the grown lattice on the negative side, from the
\* last replica but one of a two-site cell
C29_Witness ==
    /\ Expanded /\ op.amount = 3 /\ Len(prev.sites) = 2
    /\ Len(prev.edges) >= 1
    /\ delta_along(prev.edges[1], op.axis) = -2
    /\ prev.edges[1].target = 1
    /\ lattice.edges[Len(prev.edges) + 1].source = 2 + prev.edges[1].source
    /\ lattice.edges[Len(prev.edges) + 1].target = 5
    /\ delta_along(lattice.edges[Len(prev.edges) + 1], op.axis) = -1

\* every pixel sampled for the lattice before the mask has the alpha a
AllAlpha(a) == \A i \in 1..Len(prev.sites) : AlphaAt(i) = a

\* what an extreme mask returns: the lattice it was given when every
\* sampled pixel has alpha 255, and no site, no edge and the same size when
\* every sampled pixel has alpha 0
ExtremeOutcome ==
    /\ AllAlpha(255) => (result = "Ok" /\ lattice = prev)
    /\ AllAlpha(0) =>
         /\ result = "Ok"
         /\ lattice.sites = <<>>
         /\ lattice.edges = <<>>
         /\ lattice.size = prev.size

\* C30: a mask whose sampled pixels all have alpha 255 returns the lattice
\* unchanged, and a mask whose sampled pixels all have alpha 0 returns no
\* site, no edge and the same size.
C30_ExtremeMasks == Masked => ExtremeOutcome

\* the same on the lattices whose edges all name sites
ExtremeMasksOnValid == (Masked /\ validate(prev) = "Ok") => ExtremeOutcome

====
